---- MODULE Spec2Model ----
(***************************************************************************)
(* Model of commit_gpt.py: one run of main().  Strings are sequences of    *)
(* one-character strings, so that strip, split, startswith and join are    *)
(* computed character by character.  A literal message of the program is   *)
(* a one-element sequence holding the literal.                             *)
(***************************************************************************)
EXTENDS Integers, Sequences, FiniteSets, TLC

(* ------------------------------ bounds -------------------------------- *)
\* completion attempts one review stage may make in the model
MaxAttempts == 3
\* modified files the index diff may report in the model
MaxFiles == 2
\* lines of a diff body in the specification of the diff filter
MaxLines == 3

(* ----------------------------- vocabulary ----------------------------- *)
NL == "\n"
\* a Python name that is not bound yet
Unset == <<"<unset>">>
\* os.getenv of a variable that is not in the environment
None == <<"<None>">>

EnvNames == {"OPENAI_API_KEY", "OPENAI_ORGANIZATION", "SUMMARY_CONTEXT", "COMMIT_CONTEXT"}

\* the value each variable has when it is set to something non-empty
EnvValue(name) ==
    CASE name = "OPENAI_API_KEY" -> <<"k">>
      [] name = "OPENAI_ORGANIZATION" -> <<"g">>
      [] name = "SUMMARY_CONTEXT" -> <<"S">>
      [] OTHER -> <<"C">>

\* environments after load_dotenv(): each variable absent, empty or set
Environments == { e \in [EnvNames -> {None, <<>>, <<"k">>, <<"g">>, <<"S">>, <<"C">>}] :
                    \A n \in EnvNames : e[n] \in {None, <<>>, EnvValue(n)} }

Prog == <<"commit_gpt.py">>
ArgPath == <<"/", "r">>
Cwd == <<"/", "w">>
\* sys.argv: the program name followed by zero, one or two arguments
Argvs == { <<Prog>>, <<Prog, ArgPath>>, <<Prog, ArgPath, ArgPath>> }

\* paths the index diff can report, in the order it reports them
PathPool == << <<"a">>, <<"b">>, <<"c">> >>
FileLists == { SubSeq(PathPool, 1, k) : k \in 0..MaxFiles }

\* lines the operator can type at a decision prompt
Tokens == {"o", "n", "y", "r", "c", ""}
\* what `inputs` records when input() finds the end of the input stream
EndOfInput == "<EOF>"

\* contents the completion service can put in a choice, before trimming
RawTexts == { <<"T">>, <<" ", "U", NL>>, <<" ">>, <<>> }
\* responses of the service: a non-empty list of choices (n is left at 1)
Responses == { <<t>> : t \in RawTexts }

(* ------------------------- string functions --------------------------- *)
Whitespace == {" ", NL, "\t"}

RECURSIVE lstrip(_)
lstrip(s) == IF s # <<>> /\ Head(s) \in Whitespace THEN lstrip(Tail(s)) ELSE s

RECURSIVE rstrip(_)
rstrip(s) ==
    IF s # <<>> /\ s[Len(s)] \in Whitespace THEN rstrip(SubSeq(s, 1, Len(s) - 1)) ELSE s

\* str.strip()
strip(s) == rstrip(lstrip(s))

RECURSIVE join(_, _)
\* sep.join(list) for a one-character separator
join(sep, list) ==
    IF list = <<>> THEN <<>>
    ELSE IF Len(list) = 1 THEN list[1]
    ELSE list[1] \o <<sep>> \o join(sep, Tail(list))

RECURSIVE split(_, _)
\* s.split(sep) for a one-character separator: always at least one piece
split(s, sep) ==
    IF s = <<>> THEN << <<>> >>
    ELSE LET rest == split(Tail(s), sep)
         IN  IF Head(s) = sep THEN << <<>> >> \o rest
             ELSE << <<Head(s)>> \o rest[1] >> \o Tail(rest)

\* line.startswith(prefix)
startswith(line, prefix) ==
    Len(line) >= Len(prefix) /\ SubSeq(line, 1, Len(prefix)) = prefix

\* line.startswith(tuple of prefixes)
startswith_any(line, prefixes) == \E p \in prefixes : startswith(line, p)

\* the paths of the pool
Paths == { PathPool[i] : i \in 1..Len(PathPool) }

\* the text repo.git.diff("HEAD", file) returns for a tracked path: the two header
\* lines, a hunk marker, a context line, a removed and an added line of that file
GitDiff(file) ==
    join(NL, << <<"-", "-", "-", " ">> \o file,
                <<"+", "+", "+", " ">> \o file,
                <<"@", "@">>,
                <<" ", "k">>,
                <<"-", "o">> \o file,
                <<"+", "n">> \o file >>)

(* ------------------------------ state --------------------------------- *)
VARIABLES
    pc,              \* position of main()
    worktree,        \* the repository: the text repo.git.diff("HEAD", path) returns, per path
    on_disk,         \* the answers of os.path.exists in get_diffs, in order
    first_request,   \* the first completion request of the running stage
    env,             \* process environment after load_dotenv()
    argv,            \* sys.argv
    openai,          \* openai.api_key / openai.organization
    repo_path,       \* main's repo_path
    repo,            \* main's repo: the opened handle, or Unset
    modified_files,  \* main's modified_files
    diffs,           \* get_diffs' diffs so far, then main's diffs
    stage,           \* the review stage that is running: "none", "summary", "commit_message"
    message,         \* summary_message / commit_message local to the running stage
    attempts,        \* completion calls made by the running stage
    inputs,          \* lines the operator typed at the running stage's prompts
    generated,       \* the distinct trimmed texts the client returned to the running stage
    presented,       \* the generated text last shown to the operator
    request,         \* the last completion request sent
    summary_message, \* main's summary_message
    commit_message,  \* main's commit_message
    committed,       \* the message repo.git.commit was called with
    effects,         \* calls made to the repository collaborator, in order
    console,         \* the last line printed: text and style
    error            \* the exception that ended the run

vars == << pc, worktree, on_disk, first_request,
           env, argv, openai, repo_path, repo, modified_files, diffs, stage, message,
           attempts, inputs, generated, presented, request, summary_message,
           commit_message, committed, effects, console, error >>

NoError == [type |-> "none", msg |-> "none"]
NoRequest == [model |-> "none", system |-> Unset, user |-> Unset]

\* the part of the initial state that is the same in every specification
InitLocals ==
    /\ on_disk = <<>>
    /\ first_request = NoRequest
    /\ stage = "none"
    /\ message = Unset
    /\ attempts = 0
    /\ inputs = <<>>
    /\ generated = {}
    /\ presented = Unset
    /\ request = NoRequest
    /\ summary_message = Unset
    /\ commit_message = Unset
    /\ committed = Unset
    /\ error = NoError

Init ==
    /\ pc = "start"
    /\ worktree = [p \in Paths |-> GitDiff(p)]
    /\ InitLocals
    /\ env \in Environments
    /\ argv \in Argvs
    /\ openai = [api_key |-> Unset, organization |-> Unset]
    /\ repo_path = Unset
    /\ repo = Unset
    /\ modified_files = Unset
    /\ diffs = Unset
    /\ effects = <<>>
    /\ console = [text |-> Unset, style |-> "none"]

(* ----------------------------- helpers -------------------------------- *)
\* `not value` for a string or None
Falsy(value) == value = None \/ value = <<>>

\* the style print_to_console gives a message type
style_of(type_of_message) ==
    CASE type_of_message = "info" -> "bold blue"
      [] type_of_message = "success" -> "bold green"
      [] type_of_message = "warning" -> "bold yellow"
      [] type_of_message = "error" -> "bold red"
      [] OTHER -> "default on default"

\* print_to_console(console, text, type_of_message)
print_to_console(text, type_of_message) ==
    console' = [text |-> text, style |-> style_of(type_of_message)]

\* an exception leaves main(): the run is over
Raise(type, msg) ==
    /\ pc' = "crashed"
    /\ error' = [type |-> type, msg |-> msg]

\* the message of the ValueError check_environment_variables raises, or "ok"
check_environment_variables(e) ==
    IF Falsy(e["OPENAI_API_KEY"]) THEN "OPENAI_API_KEY is not set"
    ELSE IF Falsy(e["OPENAI_ORGANIZATION"]) THEN "OPENAI_ORGANIZATION is not set"
    ELSE IF Falsy(e["SUMMARY_CONTEXT"]) THEN "SUMMARY_CONTEXT is not set"
    ELSE IF Falsy(e["COMMIT_CONTEXT"]) THEN "COMMIT_CONTEXT is not set"
    ELSE "ok"

\* mutant: extra arguments are ignored instead of refused
get_repo_path_from_argument_lenient(args) ==
    IF Len(args) >= 2 THEN args[2] ELSE Cwd

\* get_repo_path_from_argument: the path, or Unset when it raises
get_repo_path_from_argument(args) ==
    CASE Len(args) = 2 -> args[2]
      [] Len(args) = 1 -> Cwd
      [] OTHER -> Unset

\* mutant: the header lines are not excluded
KeepLine_headers_kept(line) == startswith_any(line, { <<"+">>, <<"-">> })

\* the condition of the generator expression of get_diffs
KeepLine(line) ==
    /\ startswith_any(line, { <<"+">>, <<"-">> })
    /\ ~ startswith_any(line, { <<"-", "-", "-">>, <<"+", "+", "+">> })

\* the diff get_diffs stores for a file that exists on disk
FilteredDiff(diff_output) == join(NL, SelectSeq(split(diff_output, NL), KeepLine))

\* the entry get_diffs appends for one file
DiffEntry(exists, diff_output) ==
    IF ~ exists THEN diff_output ELSE FilteredDiff(diff_output)

(* --------------------------- main: start-up --------------------------- *)
\* main: Console(), clear_screen(), the welcome line, load_dotenv(),
\* check_environment_variables()
main_check_environment ==
    /\ pc = "start"
    /\ print_to_console(<<"Bienvenue dans Commit GPT">>, "info")
    /\ IF check_environment_variables(env) = "ok"
       THEN pc' = "connect" /\ error' = error
       ELSE Raise("ValueError", check_environment_variables(env))
    /\ UNCHANGED << worktree, on_disk, first_request,
                    env, argv, openai, repo_path, repo, modified_files, diffs, stage, message,
                    attempts, inputs, generated, presented, request, summary_message,
                    commit_message, committed, effects >>

\* connect_to_openai()
connect_to_openai ==
    /\ pc = "connect"
    /\ openai' = [api_key |-> env["OPENAI_API_KEY"],
                  organization |-> env["OPENAI_ORGANIZATION"]]
    /\ pc' = "get_repo_path"
    /\ UNCHANGED << worktree, on_disk, first_request,
                    env, argv, repo_path, repo, modified_files, diffs, stage, message,
                    attempts, inputs, generated, presented, request, summary_message,
                    commit_message, committed, effects, console, error >>

\* repo_path = get_repo_path_from_argument()
main_get_repo_path ==
    /\ pc = "get_repo_path"
    /\ IF get_repo_path_from_argument(argv) = Unset
       THEN /\ Raise("ValueError", "Utilisation: python commit_gpt.py [path]")
            /\ repo_path' = repo_path
       ELSE /\ repo_path' = get_repo_path_from_argument(argv)
            /\ pc' = "get_repo"
            /\ error' = error
    /\ UNCHANGED << worktree, on_disk, first_request,
                    env, argv, openai, repo, modified_files, diffs, stage, message,
                    attempts, inputs, generated, presented, request, summary_message,
                    commit_message, committed, effects, console >>

\* repo = get_repo(repo_path): Repo(path) opens the repository or raises
main_get_repo ==
    /\ pc = "get_repo"
    /\ \/ /\ effects' = Append(effects, [op |-> "open", arg |-> repo_path, ok |-> TRUE])
          /\ repo' = [path |-> repo_path]
          /\ pc' = "get_modified_files"
          /\ error' = error
       \/ /\ effects' = Append(effects, [op |-> "open", arg |-> repo_path, ok |-> FALSE])
          /\ Raise("InvalidGitRepositoryError", "not a repository")
          /\ repo' = repo
    /\ UNCHANGED << worktree, on_disk, first_request,
                    env, argv, openai, repo_path, modified_files, diffs, stage, message,
                    attempts, inputs, generated, presented, request, summary_message,
                    commit_message, committed, console >>

\* modified_files = get_modified_files(repo): the a_path of each entry of
\* repo.index.diff("HEAD")
main_get_modified_files ==
    /\ pc = "get_modified_files"
    /\ effects' = Append(effects, [op |-> "index_diff", arg |-> <<"HEAD">>, ok |-> TRUE])
    /\ \E files \in FileLists : modified_files' = files
    /\ pc' = "stop_if_no_modified_file"
    /\ UNCHANGED << worktree, on_disk, first_request,
                    env, argv, openai, repo_path, repo, diffs, stage, message,
                    attempts, inputs, generated, presented, request, summary_message,
                    commit_message, committed, console, error >>

NoModifiedFile == "Aucun fichier modifie n'a ete trouve. Veuillez utiliser git add pour ajouter des fichiers."

\* mutant: the emptiness test never fires
NothingModified_never(files) == FALSE

\* the test of stop_if_no_modified_file: `not modified_files`
NothingModified(files) == files = <<>>

\* stop_if_no_modified_file(console, modified_files), then the two lines main
\* prints before get_diffs
main_stop_if_no_modified_file ==
    /\ pc = "stop_if_no_modified_file"
    /\ IF NothingModified(modified_files)
       THEN /\ print_to_console(<<NoModifiedFile>>, "error")
            /\ Raise("ValueError", NoModifiedFile)
            /\ diffs' = diffs
       ELSE /\ print_to_console(join(NL, modified_files), "_")
            /\ diffs' = <<>>
            /\ pc' = "get_diffs"
            /\ error' = error
    /\ UNCHANGED << worktree, on_disk, first_request,
                    env, argv, openai, repo_path, repo, modified_files, stage, message,
                    attempts, inputs, generated, presented, request, summary_message,
                    commit_message, committed, effects >>

(* ----------------------------- get_diffs ------------------------------ *)
\* mutant: a path whose diff fails is skipped with an empty diff
get_diffs_file_skip ==
    /\ pc = "get_diffs"
    /\ Len(diffs) < Len(modified_files)
    /\ LET file == modified_files[Len(diffs) + 1]
       IN  \/ /\ effects' = Append(effects, [op |-> "diff", arg |-> file, ok |-> TRUE])
              /\ \E exists \in BOOLEAN :
                    /\ on_disk' = Append(on_disk, exists)
                    /\ diffs' = Append(diffs, DiffEntry(exists, worktree[file]))
           \/ /\ effects' = Append(effects, [op |-> "diff", arg |-> file, ok |-> FALSE])
              /\ on_disk' = Append(on_disk, FALSE)
              /\ diffs' = Append(diffs, <<>>)
    /\ UNCHANGED << worktree, first_request, pc, error,
                    env, argv, openai, repo_path, repo, modified_files, stage, message,
                    attempts, inputs, generated, presented, request, summary_message,
                    commit_message, committed, console >>

\* mutant: each diff is put in front of the list instead of at its end
get_diffs_file_prepend ==
    /\ pc = "get_diffs"
    /\ Len(diffs) < Len(modified_files)
    /\ LET file == modified_files[Len(diffs) + 1]
       IN  \/ /\ effects' = Append(effects, [op |-> "diff", arg |-> file, ok |-> TRUE])
              /\ \E exists \in BOOLEAN :
                    /\ on_disk' = Append(on_disk, exists)
                    /\ diffs' = <<DiffEntry(exists, worktree[file])>> \o diffs
              /\ UNCHANGED << pc, error >>
           \/ /\ effects' = Append(effects, [op |-> "diff", arg |-> file, ok |-> FALSE])
              /\ Raise("GitCommandError", "diff")
              /\ UNCHANGED << diffs, on_disk >>
    /\ UNCHANGED << worktree, first_request,
                    env, argv, openai, repo_path, repo, modified_files, stage, message,
                    attempts, inputs, generated, presented, request, summary_message,
                    commit_message, committed, console >>

\* one iteration of the loop of get_diffs, for the file modified_files[Len(diffs) + 1]:
\* os.path.exists(file), repo.git.diff("HEAD", file), diffs.append(...)
get_diffs_file ==
    /\ pc = "get_diffs"
    /\ Len(diffs) < Len(modified_files)
    /\ LET file == modified_files[Len(diffs) + 1]
       IN  \/ /\ effects' = Append(effects, [op |-> "diff", arg |-> file, ok |-> TRUE])
              /\ \E exists \in BOOLEAN :
                    /\ on_disk' = Append(on_disk, exists)
                    /\ diffs' = Append(diffs, DiffEntry(exists, worktree[file]))
              /\ UNCHANGED << pc, error >>
           \/ /\ effects' = Append(effects, [op |-> "diff", arg |-> file, ok |-> FALSE])
              /\ Raise("GitCommandError", "diff")
              /\ UNCHANGED << diffs, on_disk >>
    /\ UNCHANGED << worktree, first_request,
                    env, argv, openai, repo_path, repo, modified_files, stage, message,
                    attempts, inputs, generated, presented, request, summary_message,
                    commit_message, committed, console >>

\* get_diffs returns; main prints the diffs and calls generate_summary
main_print_diffs ==
    /\ pc = "get_diffs"
    /\ Len(diffs) = Len(modified_files)
    /\ print_to_console(join(NL, diffs), "_")
    /\ pc' = "summary_create"
    /\ stage' = "summary"
    /\ UNCHANGED << worktree, on_disk, first_request,
                    env, argv, openai, repo_path, repo, modified_files, diffs, message,
                    attempts, inputs, generated, presented, request, summary_message,
                    commit_message, committed, effects, error >>

(* --------------------------- review stages ---------------------------- *)
\* mutant: the text of the rejected attempt is added to the prompt
summary_prompt_with_last(ds) ==
    IF message = Unset THEN join(NL, ds) ELSE join(NL, Append(ds, message))

\* generate_summary: summary_prompt = "\n".join(diffs)
summary_prompt(ds) == join(NL, ds)

\* mutant: the summary is left out of the prompt
commit_prompt_files_only(files, summary) == join(NL, files)

\* generate_commit_message: commit_prompt = "\n".join(modified_files + [summary_message])
commit_prompt(files, summary) == join(NL, files \o <<summary>>)

\* the arguments of openai.ChatCompletion.create that vary
ChatRequest(context, prompt) ==
    [model |-> "gpt-3.5-turbo", system |-> context, user |-> prompt]

\* response.choices[-1].message.content.strip()
ResponseText(response) == strip(response[Len(response)])

\* mutant: an empty answer defaults to 'o'
DefaultInput_accept(line) == IF line = "" THEN "o" ELSE line

\* `if not user_input: user_input = 'n'`
DefaultInput(line) == IF line = "" THEN "n" ELSE line

\* mutant: the accepting case is 'y'
Accepts_yes(user_input) == user_input = "y"

\* the match statement: only case 'o' returns, 'n' and every other case continue
Accepts(user_input) == user_input = "o"

\* the locals of a stage's frame, before its first iteration or after it returned
FreshFrame ==
    /\ message' = Unset
    /\ attempts' = 0
    /\ inputs' = <<>>
    /\ generated' = {}
    /\ first_request' = NoRequest

\* mutant: the message of the first attempt is kept, later texts are only shown
stage_create_keep_first(at, context, prompt, to) ==
    /\ pc = at
    /\ attempts < MaxAttempts
    /\ attempts' = attempts + 1
    /\ request' = ChatRequest(context, prompt)
    /\ first_request' = IF attempts = 0 THEN ChatRequest(context, prompt) ELSE first_request
    /\ \/ \E response \in Responses :
             /\ message' = IF message = Unset THEN ResponseText(response) ELSE message
             /\ generated' = generated \cup {ResponseText(response)}
             /\ presented' = ResponseText(response)
             /\ print_to_console(ResponseText(response), "_")
             /\ pc' = to
             /\ error' = error
       \/ /\ Raise("OpenAIError", "completion failed")
          /\ UNCHANGED << message, generated, presented, console >>
    /\ UNCHANGED << worktree, on_disk,
                    env, argv, openai, repo_path, repo, modified_files, diffs, stage,
                    inputs, summary_message, commit_message, committed, effects >>

\* the top of `while True` up to the two print_to_console calls: build the prompt,
\* call openai.ChatCompletion.create (which returns a response or raises), trim the
\* last choice and show it under its title (console keeps the last line printed)
stage_create(at, context, prompt, to) ==
    /\ pc = at
    /\ attempts < MaxAttempts
    /\ attempts' = attempts + 1
    /\ request' = ChatRequest(context, prompt)
    /\ first_request' = IF attempts = 0 THEN ChatRequest(context, prompt) ELSE first_request
    /\ \/ \E response \in Responses :
             /\ message' = ResponseText(response)
             /\ generated' = generated \cup {ResponseText(response)}
             /\ presented' = ResponseText(response)
             /\ print_to_console(ResponseText(response), "_")
             /\ pc' = to
             /\ error' = error
       \/ /\ Raise("OpenAIError", "completion failed")
          /\ UNCHANGED << message, generated, presented, console >>
    /\ UNCHANGED << worktree, on_disk,
                    env, argv, openai, repo_path, repo, modified_files, diffs, stage,
                    inputs, summary_message, commit_message, committed, effects >>

\* mutant: an answer that does not accept asks again without a new completion
stage_input_reprompt(at, back, to) ==
    /\ pc = at
    /\ \/ \E line \in Tokens :
             /\ inputs' = Append(inputs, line)
             /\ IF Accepts(DefaultInput(line))
                THEN /\ pc' = to
                     /\ IF stage = "summary"
                        THEN summary_message' = message /\ commit_message' = commit_message
                        ELSE commit_message' = message /\ summary_message' = summary_message
                ELSE /\ Len(inputs) < MaxAttempts
                     /\ pc' = at
                     /\ UNCHANGED << summary_message, commit_message >>
             /\ error' = error
       \/ /\ inputs' = Append(inputs, EndOfInput)
          /\ Raise("EOFError", "EOF when reading a line")
          /\ UNCHANGED << summary_message, commit_message >>
    /\ UNCHANGED << worktree, on_disk, first_request,
                    env, argv, openai, repo_path, repo, modified_files, diffs, stage,
                    message, attempts, generated, presented, request, committed,
                    effects, console >>

\* mutant: the end of input is caught and taken as the default answer
stage_input_eof_default(at, back, to) ==
    /\ pc = at
    /\ \/ \E line \in Tokens :
             /\ inputs' = Append(inputs, line)
             /\ IF Accepts(DefaultInput(line))
                THEN /\ pc' = to
                     /\ IF stage = "summary"
                        THEN summary_message' = message /\ commit_message' = commit_message
                        ELSE commit_message' = message /\ summary_message' = summary_message
                ELSE /\ attempts < MaxAttempts
                     /\ pc' = back
                     /\ UNCHANGED << summary_message, commit_message >>
       \/ /\ inputs' = Append(inputs, EndOfInput)
          /\ attempts < MaxAttempts
          /\ pc' = back
          /\ UNCHANGED << summary_message, commit_message >>
    /\ UNCHANGED << worktree, on_disk, first_request, error,
                    env, argv, openai, repo_path, repo, modified_files, diffs, stage,
                    message, attempts, generated, presented, request, committed,
                    effects, console >>

\* input(...) and the match on it: end of input raises EOFError, 'o' returns the
\* message to main, anything else goes round the loop again (at most MaxAttempts
\* completions are followed in the model)
stage_input(at, back, to) ==
    /\ pc = at
    /\ \/ \E line \in Tokens :
             /\ inputs' = Append(inputs, line)
             /\ IF Accepts(DefaultInput(line))
                THEN /\ pc' = to
                     /\ IF stage = "summary"
                        THEN summary_message' = message /\ commit_message' = commit_message
                        ELSE commit_message' = message /\ summary_message' = summary_message
                ELSE /\ attempts < MaxAttempts
                     /\ pc' = back
                     /\ UNCHANGED << summary_message, commit_message >>
             /\ error' = error
       \/ /\ inputs' = Append(inputs, EndOfInput)
          /\ Raise("EOFError", "EOF when reading a line")
          /\ UNCHANGED << summary_message, commit_message >>
    /\ UNCHANGED << worktree, on_disk, first_request,
                    env, argv, openai, repo_path, repo, modified_files, diffs, stage,
                    message, attempts, generated, presented, request, committed,
                    effects, console >>

generate_summary_create ==
    stage_create("summary_create", env["SUMMARY_CONTEXT"], summary_prompt(diffs),
                 "summary_input")

generate_summary_input ==
    stage_input("summary_input", "summary_create", "summary_returned")

\* mutant: main goes from the summary straight to commit_and_push
main_after_summary_skip ==
    /\ pc = "summary_returned"
    /\ print_to_console(summary_message, "_")
    /\ FreshFrame
    /\ stage' = "none"
    /\ pc' = "commit"
    /\ UNCHANGED << worktree, on_disk,
                    env, argv, openai, repo_path, repo, modified_files, diffs,
                    presented, request, summary_message, commit_message, committed,
                    effects, error >>

\* generate_summary has returned: main prints the summary and calls
\* generate_commit_message
main_after_summary ==
    /\ pc = "summary_returned"
    /\ print_to_console(summary_message, "_")
    /\ FreshFrame
    /\ stage' = "commit_message"
    /\ pc' = "commit_message_create"
    /\ UNCHANGED << worktree, on_disk,
                    env, argv, openai, repo_path, repo, modified_files, diffs,
                    presented, request, summary_message, commit_message, committed,
                    effects, error >>

generate_commit_message_create ==
    stage_create("commit_message_create", env["COMMIT_CONTEXT"],
                 commit_prompt(modified_files, summary_message), "commit_message_input")

generate_commit_message_input ==
    stage_input("commit_message_input", "commit_message_create", "commit_message_returned")

\* generate_commit_message has returned: main prints the message and calls
\* commit_and_push
main_after_commit_message ==
    /\ pc = "commit_message_returned"
    /\ print_to_console(commit_message, "_")
    /\ FreshFrame
    /\ stage' = "none"
    /\ pc' = "commit"
    /\ UNCHANGED << worktree, on_disk,
                    env, argv, openai, repo_path, repo, modified_files, diffs,
                    presented, request, summary_message, commit_message, committed,
                    effects, error >>

(* -------------------------- commit_and_push --------------------------- *)
\* the remote commit_and_push pushes to: repo.remote(name='origin')
Origin == <<"origin">>

\* mutant: the commit is made with the summary as its message
commit_and_push_commit_summary ==
    /\ pc = "commit"
    /\ print_to_console(<<"Commit en cours...">>, "info")
    /\ \/ /\ effects' = Append(effects, [op |-> "commit", arg |-> summary_message, ok |-> TRUE])
          /\ committed' = summary_message
          /\ pc' = "push"
          /\ error' = error
       \/ /\ effects' = Append(effects, [op |-> "commit", arg |-> summary_message, ok |-> FALSE])
          /\ Raise("GitCommandError", "commit")
          /\ committed' = committed
    /\ UNCHANGED << worktree, on_disk, first_request,
                    env, argv, openai, repo_path, repo, modified_files, diffs, stage,
                    message, attempts, inputs, generated, presented, request,
                    summary_message, commit_message >>

\* 'Commit en cours...', then repo.git.commit(message=commit_message), which
\* returns or raises
commit_and_push_commit ==
    /\ pc = "commit"
    /\ print_to_console(<<"Commit en cours...">>, "info")
    /\ \/ /\ effects' = Append(effects, [op |-> "commit", arg |-> commit_message, ok |-> TRUE])
          /\ committed' = commit_message
          /\ pc' = "push"
          /\ error' = error
       \/ /\ effects' = Append(effects, [op |-> "commit", arg |-> commit_message, ok |-> FALSE])
          /\ Raise("GitCommandError", "commit")
          /\ committed' = committed
    /\ UNCHANGED << worktree, on_disk, first_request,
                    env, argv, openai, repo_path, repo, modified_files, diffs, stage,
                    message, attempts, inputs, generated, presented, request,
                    summary_message, commit_message >>

\* mutant: a failed push is caught and tried again
commit_and_push_push_retry ==
    /\ pc = "push"
    /\ \/ /\ effects' = Append(effects, [op |-> "push", arg |-> Origin, ok |-> TRUE])
          /\ print_to_console(<<"Commit termine.">>, "success")
          /\ pc' = "done"
       \/ /\ Len(effects) < 12
          /\ effects' = Append(effects, [op |-> "push", arg |-> Origin, ok |-> FALSE])
          /\ UNCHANGED << pc, console >>
    /\ UNCHANGED << worktree, on_disk, first_request,
                    env, argv, openai, repo_path, repo, modified_files, diffs, stage,
                    message, attempts, inputs, generated, presented, request,
                    summary_message, commit_message, committed, error >>

\* origin = repo.remote(name='origin'); origin.push(), which returns or raises;
\* then 'Commit termine.'
commit_and_push_push ==
    /\ pc = "push"
    /\ \/ /\ effects' = Append(effects, [op |-> "push", arg |-> Origin, ok |-> TRUE])
          /\ print_to_console(<<"Commit termine.">>, "success")
          /\ pc' = "done"
          /\ error' = error
       \/ /\ effects' = Append(effects, [op |-> "push", arg |-> Origin, ok |-> FALSE])
          /\ Raise("GitCommandError", "push")
          /\ console' = console
    /\ UNCHANGED << worktree, on_disk, first_request,
                    env, argv, openai, repo_path, repo, modified_files, diffs, stage,
                    message, attempts, inputs, generated, presented, request,
                    summary_message, commit_message, committed >>

(* --------------------------- specification ---------------------------- *)
Next ==
    \/ main_check_environment
    \/ connect_to_openai
    \/ main_get_repo_path
    \/ main_get_repo
    \/ main_get_modified_files
    \/ main_stop_if_no_modified_file
    \/ get_diffs_file
    \/ main_print_diffs
    \/ generate_summary_create
    \/ generate_summary_input
    \/ main_after_summary
    \/ generate_commit_message_create
    \/ generate_commit_message_input
    \/ main_after_commit_message
    \/ commit_and_push_commit
    \/ commit_and_push_push

Spec == Init /\ [][Next]_vars

(* ------------------ specification of the diff filter ------------------ *)
\* lines a diff body can hold: added, removed and context lines, header lines,
\* a hunk marker, an empty line, and lines of two signs
DiffLines == { <<"+", "n">>, <<"-", "o">>, <<" ", "k">>, <<"-", "-", "-", " ", "a">>,
               <<"+", "+", "+">>, <<"-", "-">>, <<"@">>, <<>> }

\* the diff bodies of at most MaxLines lines
DiffBodies == { join(NL, ls) : ls \in UNION { [1..k -> DiffLines] : k \in 0..MaxLines } }

\* main is about to call get_diffs for one modified file whose diff is any body
DiffInit ==
    /\ pc = "get_diffs"
    /\ worktree \in [{PathPool[1]} -> DiffBodies]
    /\ InitLocals
    /\ env = [n \in EnvNames |-> EnvValue(n)]
    /\ argv = <<Prog>>
    /\ openai = [api_key |-> EnvValue("OPENAI_API_KEY"),
                 organization |-> EnvValue("OPENAI_ORGANIZATION")]
    /\ repo_path = Cwd
    /\ repo = [path |-> Cwd]
    /\ modified_files = <<PathPool[1]>>
    /\ diffs = <<>>
    /\ effects = << [op |-> "open", arg |-> Cwd, ok |-> TRUE],
                    [op |-> "index_diff", arg |-> <<"HEAD">>, ok |-> TRUE] >>
    /\ console = [text |-> PathPool[1], style |-> style_of("_")]

DiffNext ==
    \/ get_diffs_file
    \/ main_print_diffs

SpecDiff == DiffInit /\ [][DiffNext]_vars

(* ------------------------------ claims -------------------------------- *)
\* a review stage is running or has just returned to main
InStage == stage # "none"

\* the stage has returned and main has its result
StageReturned == pc \in {"summary_returned", "commit_message_returned"}

\* the variable of main that receives the running stage's result
StageResult == IF stage = "summary" THEN summary_message ELSE commit_message

\* the calls of one kind made to the repository collaborator
Calls(op) == { i \in 1..Len(effects) : effects[i].op = op }

\* n >= 0 answers `tok` followed by one answer `last`
Repeated(seq, tok, last) ==
    /\ seq # <<>>
    /\ seq[Len(seq)] = last
    /\ \A i \in 1..(Len(seq) - 1) : seq[i] = tok

\* the client returned the same text at every attempt of the stage
FixedClient == Cardinality(generated) = 1

\* C1: repo.git.commit is called only after both the summary stage and the
\* commit-message stage have returned their accepted text; no state has a commit
\* while a stage is still running or an artifact is not yet set
C1_CommitAfterBothStages ==
    Calls("commit") # {} =>
        /\ summary_message # Unset
        /\ commit_message # Unset
        /\ stage = "none"
        /\ pc \in {"push", "done", "crashed"}

C1_Witness ==
    /\ Calls("commit") # {}
    /\ summary_message = <<"T">>
    /\ commit_message = <<"U">>

\* C2 (as claimed): a failed completion call does not end the run: the stage asks the
\* operator for replacement text and returns it
C2_CompletionFailureRecovered ==
    ~ (pc = "crashed" /\ error.type = "OpenAIError")

\* C3 (as claimed): with a client that always returns T and the answers r, ..., r, y
\* the stage has returned T after exactly n + 1 completion calls
C3_RegenerateThenYes ==
    (InStage /\ FixedClient /\ Repeated(inputs, "r", "y")) =>
        /\ StageReturned
        /\ attempts = Len(inputs)
        /\ generated = {StageResult}

\* C3 (amended): with a client that always returns T and the answers r, ..., r, o
\* (n >= 0 times r) the stage has returned T after exactly n + 1 completion calls
C3_RegenerateThenAccept ==
    (InStage /\ FixedClient /\ Repeated(inputs, "r", "o")) =>
        /\ StageReturned
        /\ attempts = Len(inputs)
        /\ generated = {StageResult}

C3_Witness ==
    /\ pc = "summary_returned"
    /\ inputs = <<"r", "r", "o">>
    /\ attempts = 3
    /\ generated = {<<"T">>}
    /\ summary_message = <<"T">>

\* C4 (as claimed): after the answer c the stage takes the operator's text and
\* returns: it is not back at the completion call and makes no further call
C4_OverrideEndsStage ==
    (InStage /\ inputs # <<>> /\ inputs[Len(inputs)] = "c") =>
        /\ pc \notin {"summary_create", "commit_message_create"}
        /\ attempts = Len(inputs)

\* C5 (as claimed): as long as the answers contain neither y nor c the stage has
\* not returned
C5_OnlyYesOrOverrideReturns ==
    (InStage /\ \A i \in 1..Len(inputs) : inputs[i] \notin {"y", "c"}) =>
        ~ StageReturned

\* C5 (amended): a stage returns only through the accept token o: as long as the
\* answers do not contain o it has not returned and main has no result, however many
\* times it regenerated, and when it has returned the last answer is o
C5_OnlyAcceptReturns ==
    /\ (InStage /\ \A i \in 1..Len(inputs) : inputs[i] # "o") =>
          /\ ~ StageReturned
          /\ StageResult = Unset
          /\ pc \in {"summary_create", "summary_input", "commit_message_create",
                     "commit_message_input", "crashed"}
    /\ StageReturned =>
          /\ inputs # <<>>
          /\ \A i \in 1..Len(inputs) : inputs[i] = "o" <=> i = Len(inputs)

C5_Witness ==
    /\ pc = "summary_input"
    /\ inputs = <<"y", "c">>
    /\ attempts = 3
    /\ summary_message = Unset

\* C6: when the list of modified files is empty no diff is taken, no completion
\* request is sent, and nothing is committed or pushed
C6_EmptyChangeSetTouchesNothing ==
    modified_files = <<>> =>
        /\ Calls("diff") = {}
        /\ Calls("commit") = {}
        /\ Calls("push") = {}
        /\ attempts = 0
        /\ request = NoRequest
        /\ stage = "none"

C6_Witness ==
    /\ modified_files = <<>>
    /\ pc = "crashed"
    /\ error.msg = NoModifiedFile

\* C7 (as claimed): the text a stage returns is never empty
C7_ReturnedTextNonEmpty ==
    StageReturned => StageResult # <<>>

\* the calls of commit_and_push, without the earlier repository calls
IsCommitOrPush(e) == e.op \in {"commit", "push"}

\* C8: when the run succeeds the commit was made with the text accepted in the
\* commit-message stage, and there was exactly one push, made after the commit; in
\* no state is there a push without an earlier successful commit
C8_CommitThenOnePush ==
    /\ pc = "done" =>
          /\ committed = commit_message
          /\ committed = presented
          /\ SelectSeq(effects, IsCommitOrPush) =
                << [op |-> "commit", arg |-> presented, ok |-> TRUE],
                   [op |-> "push", arg |-> <<"origin">>, ok |-> TRUE] >>
    /\ \A i \in Calls("push") :
          \E j \in Calls("commit") : j < i /\ effects[j].ok
    /\ Cardinality(Calls("push")) <= 1

C8_Witness ==
    /\ pc = "done"
    /\ summary_message = <<"T">>
    /\ committed = <<"U">>

\* C9: every completion request of the commit-message stage is sent after the
\* summary stage returned, with the commit context and, as user content, the file
\* paths in order and then the accepted summary, joined by newlines; before the
\* summary is accepted no request carries the commit context
C9_CommitRequestAfterSummary ==
    /\ (stage = "commit_message" /\ attempts > 0) =>
          /\ summary_message # Unset
          /\ request.system = env["COMMIT_CONTEXT"]
          /\ request.user = join(NL, modified_files) \o <<NL>> \o summary_message
    /\ (summary_message = Unset /\ request # NoRequest) =>
          /\ request.system = env["SUMMARY_CONTEXT"]
          /\ request.user = join(NL, diffs)
    /\ pc \in {"commit_message_create", "commit_message_input"} => summary_message # Unset

C9_Witness ==
    /\ stage = "commit_message"
    /\ attempts = 2
    /\ summary_message = <<"U">>
    /\ request.user = <<"a", NL, "b", NL, "U">>

C11_EmptyChangeSetCleanStop ==
    (modified_files = <<>> /\ pc # "stop_if_no_modified_file") =>
        /\ pc # "crashed"
        /\ error = NoError

\* C12: get_diffs makes one entry per path, in the order of the paths: entry i is
\* the diff of path i, as it is when the file is deleted and filtered when it exists;
\* the diff calls are made for the paths in order, and once get_diffs has returned
\* there are as many entries as paths
C12_OneDiffPerPathInOrder ==
    diffs # Unset =>
        /\ Len(diffs) <= Len(modified_files)
        /\ Len(on_disk) = Len(diffs)
        /\ \A i \in 1..Len(diffs) :
              diffs[i] = IF on_disk[i] THEN FilteredDiff(worktree[modified_files[i]])
                         ELSE worktree[modified_files[i]]
        /\ \A i \in 1..Len(diffs) :
              \E j \in Calls("diff") :
                  /\ effects[j].arg = modified_files[i]
                  /\ Cardinality({ k \in Calls("diff") : k <= j }) = i
        /\ (pc \notin {"get_diffs", "crashed"} \/ request # NoRequest) =>
              Len(diffs) = Len(modified_files)

C12_Witness ==
    /\ pc = "summary_create"
    /\ modified_files = << <<"a">>, <<"b">> >>
    /\ on_disk = <<TRUE, FALSE>>
    /\ diffs = << <<"-", "o", "a", NL, "+", "n", "a">>, GitDiff(<<"b">>) >>

\* a line that starts with + or - and does not start with --- or +++
Qualifies(line) ==
    /\ line # <<>>
    /\ line[1] \in {"+", "-"}
    /\ ~ (Len(line) >= 3 /\ line[2] = line[1] /\ line[3] = line[1])

\* C13: for a file that exists on disk the stored diff is made of exactly the lines
\* of the raw diff that start with + or - and not with --- or +++, in their order
C13_FilterKeepsChangeLines ==
    \A i \in 1..Len(on_disk) :
        (on_disk[i] /\ i <= Len(diffs)) =>
            diffs[i] = join(NL, SelectSeq(split(worktree[modified_files[i]], NL), Qualifies))

C13_Witness ==
    /\ on_disk = <<TRUE>>
    /\ worktree[<<"a">>] = <<"-", "-", "-", " ", "a", NL, "+", "n", NL, " ", "k">>
    /\ diffs = << <<"+", "n">> >>

\* a required configuration value is absent or empty
BadConfiguration == \E n \in EnvNames : env[n] \in {None, <<>>}

\* more than one argument was given
WrongArgumentCount == Len(argv) > 2

\* C14: with a required configuration value missing, or with more than one argument,
\* the run ends with an error before any collaborator is touched: no repository
\* handle, no index diff, no file diff, no completion request, no commit, no push
C14_FatalBeforeCollaborators ==
    /\ (BadConfiguration \/ WrongArgumentCount) =>
          /\ effects = <<>>
          /\ repo = Unset
          /\ modified_files = Unset
          /\ request = NoRequest
          /\ attempts = 0
          /\ pc \in {"start", "connect", "get_repo_path", "crashed"}
          /\ pc = "crashed" => error.type = "ValueError"
    /\ BadConfiguration => pc \in {"start", "crashed"} /\ openai.api_key = Unset

C14_Witness ==
    /\ pc = "crashed"
    /\ WrongArgumentCount
    /\ ~ BadConfiguration
    /\ error.msg = "Utilisation: python commit_gpt.py [path]"

\* C15: in the summary stage an answer that is not a token of the match statement,
\* the empty answer included (and the token n as well), does not return: the stage is
\* back at the completion call, or has sent one more request and prompts again, or
\* that request failed; main has no summary
C15_OtherInputRegenerates ==
    (stage = "summary" /\ inputs # <<>> /\ inputs[Len(inputs)] \notin {"o", EndOfInput}) =>
        /\ summary_message = Unset
        /\ \/ pc = "summary_create" /\ attempts = Len(inputs)
           \/ pc = "summary_input" /\ attempts = Len(inputs) + 1 /\ request = first_request
           \/ pc = "crashed" /\ attempts = Len(inputs) + 1 /\ error.type = "OpenAIError"

C15_Witness ==
    /\ pc = "summary_input"
    /\ inputs = <<"", "y">>
    /\ attempts = 3

\* C16: the end of the input stream at a decision prompt ends the run with EOFError:
\* it is the last thing read, no result is returned to main, no completion request
\* follows it, and nothing is committed or pushed
C16_EndOfInputFatal ==
    \A i \in 1..Len(inputs) :
        inputs[i] = EndOfInput =>
            /\ i = Len(inputs)
            /\ pc = "crashed"
            /\ error.type = "EOFError"
            /\ StageResult = Unset
            /\ attempts = Len(inputs)
            /\ Calls("commit") = {}
            /\ Calls("push") = {}

C16_Witness ==
    /\ stage = "commit_message"
    /\ inputs = <<"n", EndOfInput>>
    /\ pc = "crashed"

\* C17: every request of a stage is the stage's first request: the stage's context
\* and a user content made of the diffs (summary) or of the paths and the summary
\* (commit message) alone, whatever was generated and rejected before
C17_SameRequestEveryAttempt ==
    (InStage /\ attempts >= 1) =>
        /\ request = first_request
        /\ request.system = IF stage = "summary" THEN env["SUMMARY_CONTEXT"]
                            ELSE env["COMMIT_CONTEXT"]
        /\ request.user = IF stage = "summary" THEN join(NL, diffs)
                          ELSE join(NL, modified_files \o <<summary_message>>)

C17_Witness ==
    /\ pc = "summary_input"
    /\ attempts = 3
    /\ inputs = <<"r", "n">>
    /\ generated = { <<"T">>, <<"U">> }

\* C18: a failed diff call is the last repository call of the run and ends it with
\* that error: the path is not skipped, get_diffs returns no list, and no completion
\* request, commit or push follows
C18_DiffFailureAborts ==
    \A j \in Calls("diff") :
        ~ effects[j].ok =>
            /\ j = Len(effects)
            /\ pc = "crashed"
            /\ error.type = "GitCommandError"
            /\ Len(diffs) < Len(modified_files)
            /\ effects[j].arg = modified_files[Len(diffs) + 1]
            /\ stage = "none"
            /\ request = NoRequest
            /\ summary_message = Unset
            /\ Calls("commit") = {}
            /\ Calls("push") = {}

C18_Witness ==
    /\ pc = "crashed"
    /\ Len(modified_files) = 2
    /\ Len(diffs) = 1
    /\ effects # <<>>
    /\ effects[Len(effects)] = [op |-> "diff", arg |-> <<"b">>, ok |-> FALSE]

\* C19: the text a stage returns is the text of its most recent attempt, the one
\* last shown to the operator, also when earlier attempts returned other texts
C19_ReturnsLatestText ==
    StageReturned =>
        /\ StageResult = presented
        /\ StageResult = console.text

C19_Witness ==
    /\ pc = "commit_message_returned"
    /\ inputs = <<"n", "o">>
    /\ generated = { <<"T">>, <<"U">> }
    /\ commit_message = <<"U">>

====
